---- MODULE Spec2Model ----
(***************************************************************************)
(* Model of search_email.py (google-takeout-utils): the mbox scanner and   *)
(* SQLite index built by create_index, the union-find thread resolver, and *)
(* the query path search_index / run.                                      *)
(*                                                                         *)
(* Text is modelled as a sequence of one-character strings.  A few         *)
(* multi-character tokens stand for one lexical unit of a header value     *)
(* (an RFC 2047 encoded word).  An archive is the sequence of its lines;   *)
(* every line carries its byte length n.                                   *)
(***************************************************************************)
EXTENDS Integers, Sequences, FiniteSets, TLC

\* ------------------------------------------------------------------ bounds
\* Longest archive, in lines, of the line-level specification.
MaxLines == 4
\* Most messages in an archive of the thread specification.
MaxMsgs == 3
\* Most messages in an archive of the search specification.
MaxSearchMsgs == 2
\* Largest --limit value tried by the search specification.
MaxLimit == 2
\* Rows per transaction.  The program uses 5000 (search_email.py:229, :327);
\* the model scales it down so that full and partial batches both occur.
BatchSize == 2

\* ------------------------------------------------------------------ text
Range(s) == {s[i] : i \in 1..Len(s)}

RECURSIVE SumLen(_)
SumLen(ls) == IF ls = <<>> THEN 0 ELSE Head(ls).n + SumLen(Tail(ls))

\* str.lower() on one character
LowerChar(c) ==
  CASE c = "A" -> "a"
    [] c = "B" -> "b"
    [] c = "X" -> "x"
    [] OTHER -> c

Lower(s) == [i \in 1..Len(s) |-> LowerChar(s[i])]

\* needle in hay  (Python's substring test; the empty needle is in every text)
Contains(hay, needle) ==
  \E i \in 0..(Len(hay) - Len(needle)) :
     \A j \in 1..Len(needle) : hay[i + j] = needle[j]

\* str.strip(chars): drop leading and trailing characters that are in chars
RECURSIVE LStrip(_, _)
LStrip(s, chars) ==
  IF s # <<>> /\ Head(s) \in chars THEN LStrip(Tail(s), chars) ELSE s

RECURSIVE RStrip(_, _)
RStrip(s, chars) ==
  IF s # <<>> /\ s[Len(s)] \in chars
  THEN RStrip(SubSeq(s, 1, Len(s) - 1), chars) ELSE s

Strip(s, chars) == RStrip(LStrip(s, chars), chars)

Whitespace == {" "}

\* clean_mid / _clean_mid
clean_mid(mid) ==
  IF mid = <<>> THEN <<>>
  ELSE Strip(Strip(Strip(mid, Whitespace), {"<", ">"}), Whitespace)

\* ------------------------------------------------------- SQL values
\* A TEXT column value, NULL or a text
NullText == [null |-> TRUE, v |-> <<>>]
Text(s) == [null |-> FALSE, v |-> s]
\* date_utc: NULL or an instant.  Instants are counted in half days, so day
\* d starts at 2*d; the formatted "%Y-%m-%d %H:%M:%S" text orders as they do.
NullTime == [null |-> TRUE, t |-> 0]
Time(t) == [null |-> FALSE, t |-> t]

\* ------------------------------------------------------------ archive lines
\* One line of the archive.  k: "from" is a line that starts with b"From ",
\* "hdr" a "Name: value" line, "blank" an empty line, "text" any other line.
FromLine == [k |-> "from", name |-> "", v |-> <<>>, n |-> 6]
Hdr(name, v) == [k |-> "hdr", name |-> name, v |-> v, n |-> 4 + Len(v)]
BlankLine == [k |-> "blank", name |-> "", v |-> <<>>, n |-> 1]
TextLine(v) == [k |-> "text", name |-> "", v |-> v, n |-> 1 + Len(v)]

\* An encoded word whose charset Python knows, and one whose charset it does
\* not know (bytes.decode raises LookupError).  Each is one token of a value;
\* the model only puts an encoded word alone in a header value.
EncodedA == "=?utf-8?q?A?="
EncodedBad == "=?x-unknown?q?A?="

\* raw[:4096] (search_email.py:209)
HeaderCap == 4096

\* The lines of raw that lie wholly inside its first cap bytes.
RECURSIVE TakeBytes(_, _)
TakeBytes(ls, cap) ==
  IF ls = <<>> \/ Head(ls).n > cap THEN <<>>
  ELSE <<Head(ls)>> \o TakeBytes(Tail(ls), cap - Head(ls).n)

RECURSIVE UpToBlank(_)
UpToBlank(ls) ==
  IF ls = <<>> \/ Head(ls).k = "blank" THEN <<>>
  ELSE <<Head(ls)>> \o UpToBlank(Tail(ls))

\* header_bytes: raw up to the first blank line, else the first 4096 bytes
header_bytes(raw) ==
  IF \E i \in 1..Len(raw) : raw[i].k = "blank"
  THEN UpToBlank(raw) ELSE TakeBytes(raw, HeaderCap)

RECURSIVE LeadingHeaders(_)
LeadingHeaders(ls) ==
  IF ls = <<>> \/ Head(ls).k # "hdr" THEN <<>>
  ELSE <<Head(ls)>> \o LeadingHeaders(Tail(ls))

\* email.message_from_bytes(header_bytes): an envelope "From " line first is
\* skipped, then header lines are read up to the first line that is none.
message_from_bytes(hb) ==
  LeadingHeaders(IF hb # <<>> /\ Head(hb).k = "from" THEN Tail(hb) ELSE hb)

\* msg[name] or "": the value of the first header of that name
RECURSIVE Get(_, _)
Get(msg, name) ==
  IF msg = <<>> THEN <<>>
  ELSE IF Head(msg).name = name THEN Head(msg).v
  ELSE Get(Tail(msg), name)

DecodeWord(c) == IF c = EncodedA THEN "A" ELSE c

\* decode_header raises for an encoded word of unknown charset
DecodeRaises(raw) == EncodedBad \in Range(raw)
decode_header(raw) == [i \in 1..Len(raw) |-> DecodeWord(raw[i])]

\* split a text at a separator character
RECURSIVE Split(_, _, _)
Split(s, sep, cur) ==
  IF s = <<>> THEN <<cur>>
  ELSE IF Head(s) = sep THEN <<cur>> \o Split(Tail(s), sep, <<>>)
  ELSE Split(Tail(s), sep, Append(cur, Head(s)))

RECURSIVE JsonItems(_)
JsonItems(as) ==
  IF as = <<>> THEN <<>>
  ELSE <<"\"">> \o Head(as) \o <<"\"">>
       \o (IF Tail(as) = <<>> THEN <<>> ELSE <<",", " ">> \o JsonItems(Tail(as)))

\* extract_addresses: the lower-cased addresses as a JSON array text
extract_addresses(raw) ==
  IF raw = <<>> THEN <<"[", "]">>
  ELSE LET addrs == Split(decode_header(raw), ",", <<>>)
           kept == SelectSeq([i \in 1..Len(addrs) |->
                                Lower(Strip(addrs[i], Whitespace))],
                             LAMBDA a : a # <<>>)
       IN <<"[">> \o JsonItems(kept) \o <<"]">>

\* A Date value is a day digit, optionally followed by a zone sign:
\* "+" is one half day east of UTC, "-" one half day west, none or "Z" is UTC.
DayOf(c) == CASE c = "1" -> 1 [] c = "2" -> 2 [] c = "3" -> 3 [] OTHER -> 0
ZoneOf(c) == CASE c = "+" -> 1 [] c = "-" -> 0 - 1 [] OTHER -> 0

DateParses(s) ==
  /\ Len(s) \in {1, 2}
  /\ DayOf(s[1]) # 0
  /\ Len(s) = 2 => s[2] \in {"+", "-", "Z"}

\* parse_date, then astimezone(utc).strftime: NULL when there is no date
DateUtc(s) ==
  IF DateParses(s)
  THEN Time(2 * DayOf(s[1]) - (IF Len(s) = 2 THEN ZoneOf(s[2]) ELSE 0))
  ELSE NullTime

\* count_attachments_from_headers(raw) > 0: the marker occurs in some line
AttachMarker(l) ==
  l.k = "hdr" /\ l.name = "Content-Disposition" /\ l.v # <<>> /\ l.v[1] = "attachment"
count_attachments_from_headers(raw) ==
  Cardinality({i \in 1..Len(raw) : AttachMarker(raw[i])})

DecodedNames == {"From", "To", "Cc", "Bcc", "Subject"}

\* A variant of DefaultTuple that still runs the attachment heuristic when
\* the headers could not be decoded.
DefaultTupleAttach(msg_offset, raw) ==
  [offset |-> msg_offset, size |-> SumLen(raw), date |-> NullText,
   date_utc |-> NullTime, sender |-> <<>>, recipient |-> <<"[", "]">>,
   cc |-> <<"[", "]">>, bcc |-> <<"[", "]">>, subject |-> <<>>,
   has_attachments |-> IF count_attachments_from_headers(raw) > 0 THEN 1 ELSE 0,
   message_id |-> <<>>, in_reply_to |-> <<>>, refs |-> <<>>]

\* The tuple create_index appends to batch for one delimited message
\* (search_email.py:205-227 and, for the last message, 247-269).
DefaultTuple(msg_offset, raw) ==
  [offset |-> msg_offset, size |-> SumLen(raw), date |-> NullText,
   date_utc |-> NullTime, sender |-> <<>>, recipient |-> <<"[", "]">>,
   cc |-> <<"[", "]">>, bcc |-> <<"[", "]">>, subject |-> <<>>,
   has_attachments |-> 0, message_id |-> <<>>, in_reply_to |-> <<>>,
   refs |-> <<>>]

ParsedTuple(msg_offset, raw) ==
  LET msg == message_from_bytes(header_bytes(raw))
  IN [offset |-> msg_offset, size |-> SumLen(raw),
      date |-> Text(Get(msg, "Date")),
      date_utc |-> DateUtc(Get(msg, "Date")),
      sender |-> decode_header(Get(msg, "From")),
      recipient |-> extract_addresses(Get(msg, "To")),
      cc |-> extract_addresses(Get(msg, "Cc")),
      bcc |-> extract_addresses(Get(msg, "Bcc")),
      subject |-> decode_header(Get(msg, "Subject")),
      has_attachments |-> IF count_attachments_from_headers(raw) > 0 THEN 1 ELSE 0,
      message_id |-> Get(msg, "Message-ID"),
      in_reply_to |-> Get(msg, "In-Reply-To"),
      refs |-> Get(msg, "References")]

ParseRaises(raw) ==
  LET msg == message_from_bytes(header_bytes(raw))
  IN \E name \in DecodedNames : DecodeRaises(Get(msg, name))

MessageTuple(msg_offset, raw) ==
  IF ParseRaises(raw) THEN DefaultTuple(msg_offset, raw)
  ELSE ParsedTuple(msg_offset, raw)

\* A variant of InsertRows: INSERT OR REPLACE with the rowids counted from 1
\* in every batch, so a batch overwrites the rows of the one before.
InsertRowsFromOne(table, batch) ==
  [i \in 1..Len(batch) |->
     [id |-> i, offset |-> batch[i].offset,
      size |-> batch[i].size, date |-> batch[i].date,
      date_utc |-> batch[i].date_utc, sender |-> batch[i].sender,
      recipient |-> batch[i].recipient, cc |-> batch[i].cc,
      bcc |-> batch[i].bcc, subject |-> batch[i].subject,
      has_attachments |-> batch[i].has_attachments,
      message_id |-> batch[i].message_id,
      in_reply_to |-> batch[i].in_reply_to, refs |-> batch[i].refs,
      thread_id |-> NullText]]

\* INSERT INTO emails: rowids continue after the last row; thread_id is NULL
InsertRows(table, batch) ==
  table \o [i \in 1..Len(batch) |->
              [id |-> Len(table) + i, offset |-> batch[i].offset,
               size |-> batch[i].size, date |-> batch[i].date,
               date_utc |-> batch[i].date_utc, sender |-> batch[i].sender,
               recipient |-> batch[i].recipient, cc |-> batch[i].cc,
               bcc |-> batch[i].bcc, subject |-> batch[i].subject,
               has_attachments |-> batch[i].has_attachments,
               message_id |-> batch[i].message_id,
               in_reply_to |-> batch[i].in_reply_to, refs |-> batch[i].refs,
               thread_id |-> NullText]]

\* ------------------------------------------------- thread ids (union-find)
\* parent.get(x, x)
PGet(parent, x) == IF x \in DOMAIN parent THEN parent[x] ELSE x

\* find(x) with its path compression: the root and the parent map it leaves
RECURSIVE find(_, _)
find(parent, x) ==
  IF PGet(parent, x) = x THEN [root |-> x, parent |-> parent]
  ELSE LET p2 == [parent EXCEPT ![x] = PGet(parent, parent[x])]
       IN find(p2, p2[x])

\* A variant of union that hangs a itself under b, without looking up the
\* two roots.
union_direct(parent, a, b) == [parent EXCEPT ![a] = b]

\* union(a, b): the root of a is hung under the root of b
union(parent, a, b) ==
  LET fa == find(parent, a)
      fb == find(fa.parent, b)
  IN IF fa.root # fb.root
     THEN [fb.parent EXCEPT ![fa.root] = fb.root]
     ELSE fb.parent

\* A variant of known_mids that registers the message ids as stored, with
\* their angle brackets.
known_mids_raw(rows) ==
  {rows[i].message_id : i \in 1..Len(rows)} \ {<<>>}

\* first loop over rows: known_mids (search_email.py:300-306)
known_mids(rows) ==
  {clean_mid(rows[i].message_id) : i \in 1..Len(rows)} \ {<<>>}

\* parent after the first loop: every known mid is its own parent
InitParent(rows) == [m \in known_mids(rows) |-> m]

\* does the second loop call union for this row (search_email.py:311-315)
UnionsRow(row, known) ==
  /\ clean_mid(row.message_id) # <<>>
  /\ clean_mid(row.in_reply_to) # <<>>
  /\ clean_mid(row.in_reply_to) \in known

\* A variant of UnionLoop that, for a row without a usable In-Reply-To, unions
\* with the message its References names.
RECURSIVE UnionLoopRefs(_, _, _, _)
UnionLoopRefs(parent, rows, known, i) ==
  IF i > Len(rows) THEN parent
  ELSE UnionLoopRefs(
         IF UnionsRow(rows[i], known)
         THEN union(parent, clean_mid(rows[i].message_id),
                    clean_mid(rows[i].in_reply_to))
         ELSE IF /\ clean_mid(rows[i].message_id) # <<>>
                 /\ clean_mid(rows[i].refs) \in known
              THEN union(parent, clean_mid(rows[i].message_id),
                         clean_mid(rows[i].refs))
              ELSE parent,
         rows, known, i + 1)

\* second loop over rows i..Len(rows) (search_email.py:310-316)
RECURSIVE UnionLoop(_, _, _, _)
UnionLoop(parent, rows, known, i) ==
  IF i > Len(rows) THEN parent
  ELSE UnionLoop(IF UnionsRow(rows[i], known)
                 THEN union(parent, clean_mid(rows[i].message_id),
                            clean_mid(rows[i].in_reply_to))
                 ELSE parent,
                 rows, known, i + 1)

\* A variant of TidLoop that takes the message id itself, not its root, as
\* the thread id.
RECURSIVE TidLoopOwn(_, _, _, _)
TidLoopOwn(parent, rows, i, j) ==
  IF i > j THEN [pairs |-> <<>>, parent |-> parent]
  ELSE LET rest == TidLoopOwn(parent, rows, i + 1, j)
       IN [pairs |-> <<[tid |-> clean_mid(rows[i].message_id),
                        row_id |-> rows[i].id]>> \o rest.pairs,
           parent |-> rest.parent]

\* third loop over rows i..j: the (tid, row_id) pairs and the parent map the
\* finds leave (search_email.py:320-326)
RECURSIVE TidLoop(_, _, _, _)
TidLoop(parent, rows, i, j) ==
  IF i > j THEN [pairs |-> <<>>, parent |-> parent]
  ELSE LET mid == clean_mid(rows[i].message_id)
           f == IF mid # <<>> THEN find(parent, mid)
                ELSE [root |-> <<>>, parent |-> parent]
           rest == TidLoop(f.parent, rows, i + 1, j)
       IN [pairs |-> <<[tid |-> f.root, row_id |-> rows[i].id]>> \o rest.pairs,
           parent |-> rest.parent]

\* A variant of UpdateThreadIds whose UPDATE has no WHERE clause: every pair
\* writes all rows, the last pair of the batch wins.
UpdateThreadIdsAll(table, pairs) ==
  [r \in 1..Len(table) |->
     IF pairs # <<>>
     THEN [table[r] EXCEPT !.thread_id = Text(pairs[Len(pairs)].tid)]
     ELSE table[r]]

\* UPDATE emails SET thread_id = ? WHERE id = ?, for every pair of the batch
UpdateThreadIds(table, pairs) ==
  [r \in 1..Len(table) |->
     IF \E q \in 1..Len(pairs) : pairs[q].row_id = table[r].id
     THEN LET q == CHOOSE q \in 1..Len(pairs) :
                     /\ pairs[q].row_id = table[r].id
                     /\ \A q2 \in (q + 1)..Len(pairs) : pairs[q2].row_id # table[r].id
          IN [table[r] EXCEPT !.thread_id = Text(pairs[q].tid)]
     ELSE table[r]]

\* ------------------------------------------------------------------ state
VARIABLES
  archive,      \* the mbox file: its lines
  mboxExists,   \* the mbox file exists and can be read
  indexExists,  \* index.sqlite exists
  emails,       \* the committed rows of table emails, in rowid order
  pc,           \* where run / create_index stands
  args,         \* the parsed arguments of the current run
  lineNo,       \* create_index: the next line "for line in f" yields
  offset,       \* create_index: offset
  buf,          \* create_index: buf
  msg_offset,   \* create_index: msg_offset
  count,        \* create_index: count
  batch,        \* create_index: batch
  rows,         \* create_index: rows, the SELECT before the union-find
  parent,       \* create_index: the union-find parent map
  k,            \* create_index: rows of the third loop already handled
  qrows,        \* run: rows returned by search_index
  cur,          \* run: position of "for row in rows"
  found,        \* run: found
  out,          \* run: the ids of the results printed, in order
  outcome,      \* how the last run ended: "none", "returned", "raised",
                \* "exit1" (sys.exit(1)), "killed"
                \* (when a run ends its process ends: args and locals are reset)
  prevTable,    \* the committed table when the current create_index began
  firstTable    \* the table the first completed create_index left

ciVars == <<lineNo, offset, buf, msg_offset, count, batch, rows, parent, k>>
runVars == <<qrows, cur, found, out>>
fileVars == <<archive, mboxExists>>
histVars == <<prevTable, firstTable>>
vars == <<archive, mboxExists, indexExists, emails, pc, args, lineNo, offset,
          buf, msg_offset, count, batch, rows, parent, k, qrows, cur, found,
          out, outcome, prevTable, firstTable>>

NoParent == [m \in {} |-> m]
Unset == [set |-> FALSE, t |-> <<>>]

\* ------------------------------------------------------- the scan loop
\* A variant of ScanStep that sets msg_offset after the boundary line has been
\* counted, so a message is recorded one line late.
ScanStepLate(s, line) ==
  LET closes == line.k = "from" /\ s.buf # <<>>
      b1 == IF closes THEN Append(s.batch, MessageTuple(s.msg_offset, s.buf))
            ELSE s.batch
      flush == closes /\ Len(b1) >= BatchSize
  IN [offset |-> s.offset + line.n,
      buf |-> IF closes THEN <<line>> ELSE Append(s.buf, line),
      msg_offset |-> IF closes THEN s.offset + line.n ELSE s.msg_offset,
      count |-> IF closes THEN s.count + 1 ELSE s.count,
      batch |-> IF flush THEN <<>> ELSE b1,
      table |-> IF flush THEN InsertRows(s.table, b1) ELSE s.table]

\* One pass of the body of "for line in f" (search_email.py:187-241) on the
\* locals s, table being the committed rows.
ScanStep(s, line) ==
  LET closes == line.k = "from" /\ s.buf # <<>>
      b1 == IF closes THEN Append(s.batch, MessageTuple(s.msg_offset, s.buf))
            ELSE s.batch
      flush == closes /\ Len(b1) >= BatchSize
  IN [offset |-> s.offset + line.n,
      buf |-> IF closes THEN <<line>> ELSE Append(s.buf, line),
      msg_offset |-> IF closes THEN s.offset ELSE s.msg_offset,
      count |-> IF closes THEN s.count + 1 ELSE s.count,
      batch |-> IF flush THEN <<>> ELSE b1,
      table |-> IF flush THEN InsertRows(s.table, b1) ELSE s.table]

\* A variant of ScanEnd that inserts the last batch only when it is full.
ScanEndFullOnly(s) ==
  LET b1 == IF s.buf # <<>>
            THEN Append(s.batch, MessageTuple(s.msg_offset, s.buf))
            ELSE s.batch
  IN [offset |-> s.offset, buf |-> s.buf, msg_offset |-> s.msg_offset,
      count |-> IF s.buf # <<>> THEN s.count + 1 ELSE s.count,
      batch |-> b1,
      table |-> IF Len(b1) >= BatchSize THEN InsertRows(s.table, b1) ELSE s.table]

\* After the loop: the last message, the last INSERT and the commit
\* (search_email.py:243-276).
ScanEnd(s) ==
  LET b1 == IF s.buf # <<>>
            THEN Append(s.batch, MessageTuple(s.msg_offset, s.buf))
            ELSE s.batch
  IN [offset |-> s.offset, buf |-> s.buf, msg_offset |-> s.msg_offset,
      count |-> IF s.buf # <<>> THEN s.count + 1 ELSE s.count,
      batch |-> b1,
      table |-> IF b1 # <<>> THEN InsertRows(s.table, b1) ELSE s.table]

ScanInit == [offset |-> 0, buf |-> <<>>, msg_offset |-> 0, count |-> 0,
             batch |-> <<>>, table |-> <<>>]

RECURSIVE ScanFrom(_, _, _)
ScanFrom(s, lines, i) ==
  IF i > Len(lines) THEN ScanEnd(s)
  ELSE ScanFrom(ScanStep(s, lines[i]), lines, i + 1)

\* The parent map after the first two loops over rows
ParentOf(rs) == UnionLoop(InitParent(rs), rs, known_mids(rs), 1)

\* The table a completed create_index leaves for an archive
IndexOf(lines) ==
  LET t == ScanFrom(ScanInit, lines, 1).table
  IN UpdateThreadIds(t, TidLoop(ParentOf(t), t, 1, Len(t)).pairs)

\* ------------------------------------------------------------ arguments
\* argparse's namespace.  A text option not given is the empty text, a date
\* option not given is day 0, --show/--thread/--attachment not given are 0.
NoArgs ==
  [re_index |-> FALSE, after |-> 0, before |-> 0, sender |-> <<>>,
   recipient |-> <<>>, subject |-> <<>>, body |-> <<>>,
   has_attachment |-> FALSE, limit |-> 10, count |-> FALSE,
   no_body |-> FALSE, show |-> 0, thread |-> 0, attachment |-> 0]

\* run, line 715: the options that keep a forced rebuild from returning
ServesAfterRebuild(a) ==
  \/ a.show # 0 \/ a.attachment # 0 \/ a.thread # 0
  \/ a.after # 0 \/ a.before # 0
  \/ a.sender # <<>> \/ a.subject # <<>> \/ a.body # <<>>

CiPcs == {"ci_open", "ci_scan", "ci_union", "ci_tid", "ci_ret"}

ResetCi ==
  /\ lineNo' = 1 /\ offset' = 0 /\ buf' = <<>> /\ msg_offset' = 0
  /\ count' = 0 /\ batch' = <<>> /\ rows' = <<>> /\ parent' = NoParent
  /\ k' = 0

ResetRun == qrows' = <<>> /\ cur' = 1 /\ found' = 0 /\ out' = <<>>

\* ------------------------------------------------------------ actions
\* run(args), lines 707-714: rebuild when asked to or when there is no index
Run(a) ==
  /\ pc = "idle"
  /\ args' = a
  /\ outcome' = "none"
  /\ ResetRun
  /\ IF a.re_index \/ ~indexExists
     THEN pc' = "ci_open" /\ prevTable' = emails
     ELSE pc' = "dispatch" /\ UNCHANGED prevTable
  /\ UNCHANGED <<fileVars, indexExists, emails, ciVars, firstTable>>

\* A variant of CiOpen that keeps an existing table (CREATE TABLE IF NOT
\* EXISTS without the DROP).
CiOpenKeep ==
  /\ pc = "ci_open"
  /\ indexExists' = TRUE
  /\ emails' = emails
  /\ ResetCi
  /\ IF mboxExists
     THEN pc' = "ci_scan" /\ outcome' = outcome /\ args' = args
     ELSE pc' = "idle" /\ outcome' = "raised" /\ args' = NoArgs
  /\ UNCHANGED <<fileVars, runVars, histVars>>

\* create_index, lines 143-185: mkdir, connect (creates index.sqlite), DROP
\* TABLE and CREATE TABLE / CREATE INDEX, each committed as it executes
\* (sqlite3 opens no transaction for DDL), then stat and open of the mbox,
\* which raise when the file is missing or unreadable.
CiOpen ==
  /\ pc = "ci_open"
  /\ indexExists' = TRUE
  /\ emails' = <<>>
  /\ ResetCi
  /\ IF mboxExists
     THEN pc' = "ci_scan" /\ outcome' = outcome /\ args' = args
     ELSE pc' = "idle" /\ outcome' = "raised" /\ args' = NoArgs
  /\ UNCHANGED <<fileVars, runVars, histVars>>

\* create_index, lines 187-241: one line of the mbox
CiScanLine ==
  /\ pc = "ci_scan"
  /\ lineNo <= Len(archive)
  /\ LET s == ScanStep([offset |-> offset, buf |-> buf, msg_offset |-> msg_offset,
                        count |-> count, batch |-> batch, table |-> emails],
                       archive[lineNo])
     IN /\ offset' = s.offset /\ buf' = s.buf /\ msg_offset' = s.msg_offset
        /\ count' = s.count /\ batch' = s.batch /\ emails' = s.table
  /\ lineNo' = lineNo + 1
  /\ UNCHANGED <<fileVars, indexExists, pc, args, rows, parent, k, runVars,
                 outcome, histVars>>

\* create_index, lines 243-276: the last message, the last INSERT, the commit
CiScanEnd ==
  /\ pc = "ci_scan"
  /\ lineNo > Len(archive)
  /\ LET s == ScanEnd([offset |-> offset, buf |-> buf, msg_offset |-> msg_offset,
                       count |-> count, batch |-> batch, table |-> emails])
     IN /\ count' = s.count /\ emails' = s.table
  /\ batch' = <<>>
  /\ pc' = "ci_union"
  /\ UNCHANGED <<fileVars, indexExists, args, lineNo, offset, buf, msg_offset,
                 rows, parent, k, runVars, outcome, histVars>>

\* create_index, lines 281-316: SELECT the rows, register the known
\* message ids, union every row with its direct parent
CiUnion ==
  /\ pc = "ci_union"
  /\ rows' = emails
  /\ parent' = ParentOf(emails)
  /\ k' = 0
  /\ pc' = "ci_tid"
  /\ UNCHANGED <<fileVars, indexExists, emails, args, lineNo, offset, buf,
                 msg_offset, count, batch, runVars, outcome, histVars>>

\* create_index, lines 319-330: the third loop up to a full batch, its
\* UPDATEs and the commit
CiUpdateBatch ==
  /\ pc = "ci_tid"
  /\ k + BatchSize <= Len(rows)
  /\ LET t == TidLoop(parent, rows, k + 1, k + BatchSize)
     IN /\ emails' = UpdateThreadIds(emails, t.pairs)
        /\ parent' = t.parent
  /\ k' = k + BatchSize
  /\ UNCHANGED <<fileVars, indexExists, pc, args, lineNo, offset, buf,
                 msg_offset, count, batch, rows, runVars, outcome, histVars>>

\* create_index, lines 319-340: the rest of the third loop, the last
\* UPDATEs, the commit and the close
CiFinish ==
  /\ pc = "ci_tid"
  /\ k + BatchSize > Len(rows)
  /\ LET t == TidLoop(parent, rows, k + 1, Len(rows))
     IN /\ emails' = UpdateThreadIds(emails, t.pairs)
        /\ parent' = t.parent
        /\ firstTable' = IF firstTable.set THEN firstTable
                         ELSE [set |-> TRUE, t |-> UpdateThreadIds(emails, t.pairs)]
  /\ k' = Len(rows)
  /\ pc' = "ci_ret"
  /\ UNCHANGED <<fileVars, indexExists, args, lineNo, offset, buf, msg_offset,
                 count, batch, rows, runVars, outcome, prevTable>>

\* run, lines 715-716: a forced rebuild with nothing else to do returns
CiReturn ==
  /\ pc = "ci_ret"
  /\ ResetCi
  /\ IF args.re_index /\ ~ServesAfterRebuild(args)
     THEN pc' = "idle" /\ outcome' = "returned" /\ args' = NoArgs
     ELSE pc' = "dispatch" /\ outcome' = outcome /\ args' = args
  /\ UNCHANGED <<fileVars, indexExists, emails, runVars, histVars>>

\* The process is terminated during create_index: its locals are gone, the
\* committed rows stay.
Kill ==
  /\ pc \in CiPcs \ {"ci_ret"}
  /\ pc' = "idle"
  /\ outcome' = "killed"
  /\ args' = NoArgs
  /\ ResetCi
  /\ UNCHANGED <<fileVars, indexExists, emails, runVars, histVars>>

\* The mbox file is removed (or made unreadable) between two runs.
RemoveMbox ==
  /\ pc = "idle"
  /\ mboxExists
  /\ mboxExists' = FALSE
  /\ UNCHANGED <<archive, indexExists, emails, pc, args, ciVars, runVars,
                 outcome, histVars>>

\* ----------------------------------------------------------------- search
\* f.seek(offset); f.read(size): the lines of the file inside the byte range
RECURSIVE ReadFrom(_, _, _, _)
ReadFrom(ls, pos, off, size) ==
  IF ls = <<>> THEN <<>>
  ELSE (IF pos >= off /\ pos + Head(ls).n <= off + size THEN <<Head(ls)>> ELSE <<>>)
       \o ReadFrom(Tail(ls), pos + Head(ls).n, off, size)

ReadAt(lines, off, size) == ReadFrom(lines, 0, off, size)

\* get_body_text of a message that is not multipart: the text after the
\* header block and the blank line that ends it.
LineText(l) ==
  CASE l.k = "text" -> l.v \o <<"\n">>
    [] l.k = "hdr" -> <<l.name, ":", " ">> \o l.v \o <<"\n">>
    [] l.k = "from" -> <<"From ", "\n">>
    [] OTHER -> <<"\n">>

RECURSIVE JoinLines(_)
JoinLines(ls) ==
  IF ls = <<>> THEN <<>> ELSE LineText(Head(ls)) \o JoinLines(Tail(ls))

RECURSIVE AfterHeaders(_)
AfterHeaders(ls) ==
  IF ls = <<>> THEN <<>>
  ELSE IF Head(ls).k = "hdr" THEN AfterHeaders(Tail(ls))
  ELSE IF Head(ls).k = "blank" THEN Tail(ls)
  ELSE ls

get_body_text(raw) ==
  JoinLines(AfterHeaders(IF raw # <<>> /\ Head(raw).k = "from"
                         THEN Tail(raw) ELSE raw))

\* column LIKE '%needle%' COLLATE NOCASE
Like(column, needle) == Contains(Lower(column), Lower(needle))

\* A variant of Where whose recipient filter looks at the To column only.
WhereToOnly(r, a) ==
  /\ a.after # 0 => (~r.date_utc.null /\ r.date_utc.t >= 2 * a.after)
  /\ a.before # 0 => (~r.date_utc.null /\ r.date_utc.t < 2 * a.before)
  /\ a.sender # <<>> => Like(r.sender, a.sender)
  /\ a.recipient # <<>> => Like(r.recipient, a.recipient)
  /\ a.subject # <<>> => Like(r.subject, a.subject)
  /\ a.has_attachment => r.has_attachments = 1

\* the WHERE clause search_index builds (search_email.py:360-381)
Where(r, a) ==
  /\ a.after # 0 => (~r.date_utc.null /\ r.date_utc.t >= 2 * a.after)
  /\ a.before # 0 => (~r.date_utc.null /\ r.date_utc.t < 2 * a.before)
  /\ a.sender # <<>> => Like(r.sender, a.sender)
  /\ a.recipient # <<>> =>
        (Like(r.recipient, a.recipient) \/ Like(r.cc, a.recipient)
           \/ Like(r.bcc, a.recipient))
  /\ a.subject # <<>> => Like(r.subject, a.subject)
  /\ a.has_attachment => r.has_attachments = 1

\* A variant of DateDesc that puts the rows without date first.
DateDescNullsFirst(r1, r2) ==
  \/ r1.date_utc.null
  \/ ~r2.date_utc.null /\ r1.date_utc.t >= r2.date_utc.t

\* ORDER BY date_utc DESC: r1 may come before r2.  SQLite takes NULL as
\* smaller than every value, so rows without date come last.
DateDesc(r1, r2) ==
  \/ r2.date_utc.null
  \/ ~r1.date_utc.null /\ r1.date_utc.t >= r2.date_utc.t

\* A variant of LimitApplies that keeps the LIMIT for a body search.
LimitAppliesWithBody(a) == ~a.count

\* limit_clause (search_email.py:383)
LimitApplies(a) == ~a.count /\ a.body = <<>>

Min(x, y) == IF x <= y THEN x ELSE y

\* search_index: the row lists the query can return.  Rows with equal
\* date_utc come in an order SQL leaves open.
search_index(table, a) ==
  LET hits == {i \in 1..Len(table) : Where(table[i], a)}
      n == Cardinality(hits)
      orders == {q \in [1..n -> hits] :
                   /\ \A x, y \in 1..n : x # y => q[x] # q[y]
                   /\ \A x, y \in 1..n : x < y => DateDesc(table[q[x]], table[q[y]])}
  IN {[x \in 1..(IF LimitApplies(a) THEN Min(a.limit, n) ELSE n) |-> table[q[x]]] :
        q \in orders}

\* run, lines 718-738: the single-email actions, else the index query
Dispatch ==
  /\ pc = "dispatch"
  /\ IF args.attachment # 0 \/ args.thread # 0 \/ args.show # 0
     THEN pc' = "single" /\ UNCHANGED <<qrows, cur, found, out>>
     ELSE \E q \in search_index(emails, args) :
            /\ qrows' = q
            /\ cur' = 1 /\ found' = 0 /\ out' = <<>>
            /\ pc' = IF q = <<>> THEN "report" ELSE "loop"
  /\ UNCHANGED <<fileVars, indexExists, emails, args, ciVars, outcome, histVars>>

\* run, lines 744-787: one pass of "for row in rows"
RunRow ==
  /\ pc = "loop"
  /\ LET row == qrows[cur]
         reads == args.body # <<>> \/ (~args.count /\ ~args.no_body)
         text == get_body_text(ReadAt(archive, row.offset, row.size))
         skip == args.body # <<>> /\ ~Contains(Lower(text), Lower(args.body))
         f == IF skip THEN found ELSE found + 1
         stop == ~skip /\ ~args.count /\ f >= args.limit
     IN IF reads /\ ~mboxExists
        THEN /\ pc' = "idle" /\ outcome' = "raised" /\ args' = NoArgs
             /\ ResetRun
        ELSE /\ found' = f
             /\ out' = IF skip \/ args.count THEN out ELSE Append(out, row.id)
             /\ cur' = cur + 1
             /\ pc' = IF stop \/ cur = Len(qrows) THEN "report" ELSE "loop"
             /\ outcome' = outcome /\ args' = args /\ qrows' = qrows
  /\ UNCHANGED <<fileVars, indexExists, emails, ciVars, histVars>>

\* run, lines 789-797: the count or the results are printed, run returns
RunReport ==
  /\ pc = "report"
  /\ pc' = "idle"
  /\ outcome' = "returned"
  /\ args' = NoArgs
  /\ ResetRun
  /\ UNCHANGED <<fileVars, indexExists, emails, ciVars, histVars>>

\* ------------------------------------------------- single-email actions
\* SELECT ... FROM emails WHERE id = ?  (fetchone: the empty list is None)
row_by_id(table, id) == SelectSeq(table, LAMBDA r : r.id = id)

\* ORDER BY date_utc: r1 may come before r2, rows without date first
DateAsc(r1, r2) ==
  \/ r1.date_utc.null
  \/ ~r2.date_utc.null /\ r1.date_utc.t <= r2.date_utc.t

\* show_thread, lines 550-553: the row lists the thread query can return
thread_rows(table, tid) ==
  LET hits == {i \in 1..Len(table) : table[i].thread_id = Text(tid)}
      n == Cardinality(hits)
      orders == {q \in [1..n -> hits] :
                   /\ \A x, y \in 1..n : x # y => q[x] # q[y]
                   /\ \A x, y \in 1..n : x < y => DateAsc(table[q[x]], table[q[y]])}
  IN {[x \in 1..n |-> table[q[x]]] : q \in orders}

thread_mid_set(trows) == {clean_mid(trows[i].message_id) : i \in 1..Len(trows)}

\* show_thread, lines 561-566: a row whose cleaned In-Reply-To is a message
\* id of the thread goes to child_map, any other row to root_rows
IsChild(trows, r) ==
  /\ clean_mid(r.in_reply_to) # <<>>
  /\ clean_mid(r.in_reply_to) \in thread_mid_set(trows)

root_rows(trows) == SelectSeq(trows, LAMBDA r : ~IsChild(trows, r))

\* child_map.get(mid, []); the sort by date_utc keeps the order of
\* thread_rows, which is by date_utc already
child_map(trows, mid) ==
  SelectSeq(trows, LAMBDA r : IsChild(trows, r) /\ clean_mid(r.in_reply_to) = mid)

\* print_tree over a list of rows: the ids printed, and ok = FALSE when the
\* recursion does not end.  depth counts the calls still allowed: a chain of
\* calls longer than the number of rows passes a row twice and so goes on
\* until Python raises RecursionError.
RECURSIVE print_trees(_, _, _)
print_trees(trows, rs, depth) ==
  IF rs = <<>> THEN [ids |-> <<>>, ok |-> TRUE]
  ELSE IF depth = 0 THEN [ids |-> <<>>, ok |-> FALSE]
  ELSE LET below == print_trees(trows,
                                child_map(trows, clean_mid(Head(rs).message_id)),
                                depth - 1)
           first == [ids |-> <<Head(rs).id>> \o below.ids, ok |-> below.ok]
       IN IF ~first.ok THEN first
          ELSE LET rest == print_trees(trows, Tail(rs), depth)
               IN [ids |-> first.ids \o rest.ids, ok |-> rest.ok]

\* the process ends: sys.exit(1), an exception, or the return of run
Exit(how) ==
  /\ pc' = "idle" /\ outcome' = how /\ args' = NoArgs
  /\ ResetRun

\* run, lines 719-721, and extract_attachment.  The option value "ID-1" is
\* modelled by its email id.  get_attachments of a message that is not
\* multipart is empty, so no attachment is found and the program exits.
ExtractAttachment ==
  /\ pc = "single"
  /\ args.attachment # 0
  /\ IF row_by_id(emails, args.attachment) = <<>> THEN Exit("exit1")
     ELSE IF ~mboxExists THEN Exit("raised")
     ELSE Exit("exit1")
  /\ UNCHANGED <<fileVars, indexExists, emails, ciVars, histVars>>

\* run, lines 724-726, and show_thread
ShowThread ==
  /\ pc = "single"
  /\ args.attachment = 0 /\ args.thread # 0
  /\ LET seed == row_by_id(emails, args.thread)
     IN IF seed = <<>> THEN Exit("exit1")
        ELSE IF seed[1].thread_id.null \/ seed[1].thread_id.v = <<>>
        THEN Exit("exit1")
        ELSE \E trows \in thread_rows(emails, seed[1].thread_id.v) :
               LET p == print_trees(trows, root_rows(trows), Len(trows))
               IN IF p.ok
                  THEN /\ pc' = "shown" /\ out' = p.ids
                       /\ UNCHANGED <<args, outcome, qrows, cur, found>>
                  ELSE Exit("raised")
  /\ UNCHANGED <<fileVars, indexExists, emails, ciVars, histVars>>

\* run, lines 729-731, and show_email
ShowEmail ==
  /\ pc = "single"
  /\ args.attachment = 0 /\ args.thread = 0 /\ args.show # 0
  /\ LET row == row_by_id(emails, args.show)
     IN IF row = <<>> THEN Exit("exit1")
        ELSE IF ~mboxExists THEN Exit("raised")
        ELSE /\ pc' = "shown" /\ out' = <<row[1].id>>
             /\ UNCHANGED <<args, outcome, qrows, cur, found>>
  /\ UNCHANGED <<fileVars, indexExists, emails, ciVars, histVars>>

\* show_thread or show_email has printed; run returns
SingleReturn ==
  /\ pc = "shown"
  /\ Exit("returned")
  /\ UNCHANGED <<fileVars, indexExists, emails, ciVars, histVars>>

\* ------------------------------------------------------- specifications
SeqsUpTo(S, n) == UNION {[1..m -> S] : m \in 0..n}

InitWith(lines, exists) ==
  /\ archive = lines
  /\ mboxExists = exists
  /\ indexExists = FALSE
  /\ emails = <<>>
  /\ pc = "idle"
  /\ args = NoArgs
  /\ lineNo = 1 /\ offset = 0 /\ buf = <<>> /\ msg_offset = 0
  /\ count = 0 /\ batch = <<>> /\ rows = <<>> /\ parent = NoParent /\ k = 0
  /\ qrows = <<>> /\ cur = 1 /\ found = 0 /\ out = <<>>
  /\ outcome = "none"
  /\ prevTable = <<>>
  /\ firstTable = Unset

\* Line-level archives: every sequence of these lines, with or without a
\* leading "From " line, and the mbox present or missing.
IndexLines ==
  {FromLine, BlankLine, Hdr("Message-ID", <<"<", "a", ">">>), TextLine(<<"x">>)}

ReindexArgs == [NoArgs EXCEPT !.re_index = TRUE]

InitIndex ==
  \E lines \in SeqsUpTo(IndexLines, MaxLines), exists \in BOOLEAN :
     InitWith(lines, exists)

Build == CiOpen \/ CiScanLine \/ CiScanEnd \/ CiUnion \/ CiUpdateBatch
         \/ CiFinish \/ CiReturn

NextIndex == Run(ReindexArgs) \/ Build \/ Kill \/ RemoveMbox

SpecIndex == InitIndex /\ [][NextIndex]_vars

\* Message-level archives: every message is a "From " line, its headers, a
\* blank line and a body.  d gives the header values; an empty value means
\* the header is absent.
HdrIf(name, v) == IF v = <<>> THEN <<>> ELSE <<Hdr(name, v)>>

Message(d) ==
  <<FromLine>> \o HdrIf("Date", d.date) \o HdrIf("From", d.from)
  \o HdrIf("To", d.to) \o HdrIf("Cc", d.cc) \o HdrIf("Bcc", d.bcc)
  \o HdrIf("Subject", d.subject) \o HdrIf("Message-ID", d.mid)
  \o HdrIf("In-Reply-To", d.irt) \o HdrIf("References", d.refs)
  \o <<BlankLine>> \o d.body

RECURSIVE Mbox(_)
Mbox(ds) == IF ds = <<>> THEN <<>> ELSE Message(Head(ds)) \o Mbox(Tail(ds))

Plain ==
  [date |-> <<>>, from |-> <<>>, to |-> <<>>, cc |-> <<>>, bcc |-> <<>>,
   subject |-> <<>>, mid |-> <<>>, irt |-> <<>>, refs |-> <<>>,
   body |-> <<TextLine(<<"x">>)>>]

IdA == <<"<", "a", ">">>
IdB == <<"<", "b", ">">>
IdC == <<"<", "c", ">">>
IdZ == <<"<", "z", ">">>

\* The messages of the thread specification: a thread start, replies in both
\* directions, a reply to a message that is not in the archive, a message
\* that only has References, a self-reply, a Message-ID that is empty once
\* cleaned, an unbracketed In-Reply-To, a message whose Subject cannot be
\* decoded, and a message without Message-ID.
ThreadKinds ==
  {[Plain EXCEPT !.mid = IdA],
   [Plain EXCEPT !.mid = IdB, !.irt = IdA],
   [Plain EXCEPT !.mid = IdA, !.irt = IdB],
   [Plain EXCEPT !.mid = IdC, !.irt = IdZ],
   [Plain EXCEPT !.mid = IdC, !.refs = IdA],
   [Plain EXCEPT !.mid = <<" ", "<", "c", ">">>, !.irt = <<"b">>],
   [Plain EXCEPT !.mid = IdA, !.irt = IdA],
   [Plain EXCEPT !.mid = <<"<", ">">>, !.irt = IdA],
   [Plain EXCEPT !.mid = IdA, !.date = <<"2">>, !.subject = <<EncodedBad>>,
                 !.body = <<Hdr("Content-Disposition", <<"attachment">>)>>],
   [Plain EXCEPT !.irt = IdA]}

InitThread ==
  \E ds \in SeqsUpTo(ThreadKinds, MaxMsgs) : InitWith(Mbox(ds), TRUE)

NextThread == Run(ReindexArgs) \/ Build

SpecThread == InitThread /\ [][NextThread]_vars

\* Search archives: messages that differ in date (with and without zone, two
\* on the same instant, one without), sender, recipients, subject,
\* attachment marker and body.
SearchKinds ==
  {[Plain EXCEPT !.date = <<"2">>, !.from = <<"A", "b">>, !.cc = <<"B">>,
                 !.subject = <<"A">>,
                 !.body = <<TextLine(<<"A">>),
                            Hdr("Content-Disposition", <<"attachment">>)>>],
   [Plain EXCEPT !.date = <<"2", "+">>, !.from = <<"a", "B">>, !.to = <<"b">>,
                 !.subject = <<"A">>,
                 !.body = <<Hdr("Content-Disposition", <<"attachment">>)>>],
   [Plain EXCEPT !.from = <<"a">>, !.bcc = <<"x", ",", "b">>,
                 !.subject = <<EncodedA>>, !.body = <<TextLine(<<"x", "a">>)>>],
   [Plain EXCEPT !.date = <<"3">>, !.from = <<"b">>, !.to = <<"B">>,
                 !.subject = <<"x">>, !.body = <<TextLine(<<"x">>)>>],
   [Plain EXCEPT !.date = <<"2">>, !.from = <<"x">>, !.to = <<"x">>,
                 !.body = <<TextLine(<<"x">>),
                            Hdr("Content-Disposition", <<"attachment">>)>>]}

\* every subset of the six index filters, with and without --count
FilterArgs ==
  {[NoArgs EXCEPT !.after = af, !.before = be, !.sender = se,
                  !.recipient = re, !.subject = su, !.has_attachment = at,
                  !.limit = li, !.count = co] :
     af \in {0, 2}, be \in {0, 3}, se \in {<<>>, <<"a">>},
     re \in {<<>>, <<"b">>}, su \in {<<>>, <<"A">>}, at \in BOOLEAN,
     li \in 1..MaxLimit, co \in BOOLEAN}

\* body searches
BodyArgs ==
  {[NoArgs EXCEPT !.body = <<"A">>, !.sender = se, !.limit = li, !.count = co] :
     se \in {<<>>, <<"x">>}, li \in 0..MaxLimit, co \in BOOLEAN}

\* The index of the archive was built by an earlier run.
InitSearch ==
  \E ds \in SeqsUpTo(SearchKinds, MaxSearchMsgs) :
     /\ archive = Mbox(ds)
     /\ mboxExists = TRUE
     /\ indexExists = TRUE
     /\ emails = IndexOf(Mbox(ds))
     /\ pc = "idle"
     /\ args = NoArgs
     /\ lineNo = 1 /\ offset = 0 /\ buf = <<>> /\ msg_offset = 0
     /\ count = 0 /\ batch = <<>> /\ rows = <<>> /\ parent = NoParent /\ k = 0
     /\ qrows = <<>> /\ cur = 1 /\ found = 0 /\ out = <<>>
     /\ outcome = "none"
     /\ prevTable = <<>>
     /\ firstTable = [set |-> TRUE, t |-> IndexOf(Mbox(ds))]

\* Between two runs the mbox can be removed or made unreadable.
NextSearch ==
  \/ \E a \in FilterArgs \cup BodyArgs : Run(a)
  \/ Dispatch \/ RunRow \/ RunReport \/ RemoveMbox

SpecSearch == InitSearch /\ [][NextSearch]_vars

\* Archives of the serving specification: a thread start, a reply to it, a
\* reply the other way round, a self-reply, and a message without Message-ID
\* that has a recipient and an attachment marker.
ServeKinds ==
  {[Plain EXCEPT !.mid = IdA, !.date = <<"2">>],
   [Plain EXCEPT !.mid = IdB, !.irt = IdA],
   [Plain EXCEPT !.mid = IdA, !.irt = IdB, !.from = <<"a">>],
   [Plain EXCEPT !.mid = IdA, !.irt = IdA, !.subject = <<"A">>],
   [Plain EXCEPT !.to = <<"b">>,
                 !.body = <<Hdr("Content-Disposition", <<"attachment">>)>>]}

\* one option at a time: each search filter, --count, each single-email
\* action on every id and on one id too many, or nothing
OneOption ==
  {NoArgs,
   [NoArgs EXCEPT !.sender = <<"a">>], [NoArgs EXCEPT !.recipient = <<"b">>],
   [NoArgs EXCEPT !.subject = <<"A">>], [NoArgs EXCEPT !.body = <<"x">>],
   [NoArgs EXCEPT !.after = 2], [NoArgs EXCEPT !.before = 3],
   [NoArgs EXCEPT !.has_attachment = TRUE], [NoArgs EXCEPT !.count = TRUE]}
  \cup {[NoArgs EXCEPT !.show = id] : id \in 1..(MaxSearchMsgs + 1)}
  \cup {[NoArgs EXCEPT !.thread = id] : id \in 1..(MaxSearchMsgs + 1)}
  \cup {[NoArgs EXCEPT !.attachment = id] : id \in 1..(MaxSearchMsgs + 1)}

\* ... with and without --re-index
ServeArgs == {[a EXCEPT !.re_index = re] : a \in OneOption, re \in BOOLEAN}

\* The index is absent, or was built by an earlier run.
InitServe ==
  \E ds \in SeqsUpTo(ServeKinds, MaxSearchMsgs), built \in BOOLEAN :
     /\ archive = Mbox(ds)
     /\ mboxExists = TRUE
     /\ indexExists = built
     /\ emails = IF built THEN IndexOf(Mbox(ds)) ELSE <<>>
     /\ pc = "idle"
     /\ args = NoArgs
     /\ lineNo = 1 /\ offset = 0 /\ buf = <<>> /\ msg_offset = 0
     /\ count = 0 /\ batch = <<>> /\ rows = <<>> /\ parent = NoParent /\ k = 0
     /\ qrows = <<>> /\ cur = 1 /\ found = 0 /\ out = <<>>
     /\ outcome = "none"
     /\ prevTable = <<>>
     /\ firstTable = IF built THEN [set |-> TRUE, t |-> IndexOf(Mbox(ds))]
                     ELSE Unset

NextServe ==
  \/ \E a \in ServeArgs : Run(a)
  \/ Build \/ Dispatch \/ RunRow \/ RunReport
  \/ ExtractAttachment \/ ShowThread \/ ShowEmail \/ SingleReturn

SpecServe == InitServe /\ [][NextServe]_vars

\* ---------------------------------------------------------------- claims

RECURSIVE ConcatExtents(_, _, _)
ConcatExtents(lines, table, i) ==
  IF i > Len(table) THEN <<>>
  ELSE ReadAt(lines, table[i].offset, table[i].size)
       \o ConcatExtents(lines, table, i + 1)

CreateIndexReturned == pc = "ci_ret"

\* C1. Boundary completeness: when create_index has returned, the records in
\* id order carry ids 1..n, the first offset is 0, every next offset is the
\* previous offset plus size with a positive size (no gap, no overlap,
\* strictly increasing), the last offset plus size is the archive length,
\* and the byte ranges concatenated are the archive.
C1_BoundaryCompleteness ==
  CreateIndexReturned =>
    /\ \A i \in 1..Len(emails) : emails[i].id = i /\ emails[i].size > 0
    /\ Len(emails) > 0 => emails[1].offset = 0
    /\ \A i \in 1..(Len(emails) - 1) :
          emails[i + 1].offset = emails[i].offset + emails[i].size
    /\ Len(emails) > 0 =>
          emails[Len(emails)].offset + emails[Len(emails)].size = SumLen(archive)
    /\ Len(emails) = 0 => archive = <<>>
    /\ ConcatExtents(archive, emails, 1) = archive

\* An archive whose first line is no boundary line and whose body holds
\* later boundaries has been indexed.
C1_Witness ==
  /\ CreateIndexReturned
  /\ Len(emails) >= 3
  /\ archive[1].k # "from"

InBuild == pc \in {"ci_scan", "ci_union", "ci_tid", "ci_ret"}

\* C5 as stated.  Atomic rebuild: during create_index a reader of the
\* committed table sees the complete previous table or the complete new
\* table, never an empty or partly filled or partly thread-resolved one.
C5_AtomicRebuild ==
  pc \in CiPcs => (emails = prevTable \/ emails = IndexOf(archive))

\* new continues old: no row is lost, a row changes only by its thread_id
\* going from NULL to a value
Grows(old, new) ==
  /\ Len(new) >= Len(old)
  /\ \A i \in 1..Len(old) :
        /\ [new[i] EXCEPT !.thread_id = NullText] = [old[i] EXCEPT !.thread_id = NullText]
        /\ ~old[i].thread_id.null => new[i].thread_id = old[i].thread_id

CompleteTable ==
  /\ \A i \in 1..Len(emails) : ~emails[i].thread_id.null
  /\ ConcatExtents(archive, emails, 1) = archive

\* C5 as amended.  The rebuild is not atomic: the drop is committed at once,
\* so the table a reader sees is empty when the scan starts, then only grows
\* (committed batches of rows whose thread_id is NULL, earlier rows
\* unchanged), then has thread_id filled in and nothing else changed; it is
\* complete, with every record and every thread_id, when create_index
\* returns.
C5_BatchwiseRebuild ==
  /\ [][(pc = "ci_open" /\ pc' = "ci_scan") => emails' = <<>>]_vars
  /\ [][(InBuild /\ pc' \in CiPcs) => Grows(emails, emails')]_vars
  /\ [](pc \in {"ci_scan", "ci_union"} =>
          \A i \in 1..Len(emails) : emails[i].thread_id.null)
  /\ [](pc = "ci_ret" => CompleteTable)

\* A rebuild over a complete previous table is under way and a reader sees a
\* table that is neither the previous one nor complete.
C5_Witness ==
  /\ pc = "ci_tid"
  /\ prevTable # <<>>
  /\ Len(emails) >= 3
  /\ ~emails[1].thread_id.null
  /\ emails[3].thread_id.null

\* C6. Missing or unreadable archive: when create_index fails because the
\* mbox cannot be read, no index file is created where there was none and an
\* existing table is left as it was.
C6_NoPartialIndex ==
  [][(pc = "ci_open" /\ ~mboxExists /\ outcome' = "raised")
       => (indexExists' = indexExists /\ emails' = emails)]_vars

\* C7. Idempotent, self-healing rebuild: whatever the index was before (none,
\* complete, or what a terminated rebuild left), create_index ends with ids
\* 1..n and with the very table the first completed rebuild of this archive
\* left.
C7_IdempotentRebuild ==
  CreateIndexReturned =>
    /\ firstTable.set
    /\ emails = firstTable.t
    /\ \A i \in 1..Len(emails) : emails[i].id = i

\* A rebuild has completed over the partly filled table of a terminated one.
C7_Witness ==
  /\ CreateIndexReturned
  /\ Len(emails) >= 3
  /\ prevTable # <<>>
  /\ prevTable # emails
  /\ Len(prevTable) < Len(emails)

\* ------------------------------------------------------ thread claims
Mid(t, i) == clean_mid(t[i].message_id)
Irt(t, i) == clean_mid(t[i].in_reply_to)

\* record i names record j as its direct parent
ReplyEdge(t, i, j) == Irt(t, i) # <<>> /\ Irt(t, i) = Mid(t, j)
Linked(t, i, j) == ReplyEdge(t, i, j) \/ ReplyEdge(t, j, i)
SameMessage(t, i, j) == Mid(t, i) # <<>> /\ Mid(t, i) = Mid(t, j)

\* the records a chain of reply edges reaches from S; with copies, a step may
\* also go between two records that carry the same cleaned message id
RECURSIVE Reach(_, _, _)
Reach(t, S, copies) ==
  LET S2 == S \cup {j \in 1..Len(t) :
                      \E i \in S : \/ Linked(t, i, j)
                                   \/ copies /\ SameMessage(t, i, j)}
  IN IF S2 = S THEN S ELSE Reach(t, S2, copies)

InSameThread(t, i, j) ==
  /\ ~t[i].thread_id.null /\ t[i].thread_id.v # <<>>
  /\ t[i].thread_id = t[j].thread_id

\* C2 as stated.  Thread partition: two records with the same non-empty
\* thread_id are joined by a chain of direct in-reply-to edges, direction
\* ignored, through records of the archive.
C2_ChainOfReplies ==
  CreateIndexReturned =>
    \A i, j \in 1..Len(emails) :
       InSameThread(emails, i, j) => j \in Reach(emails, {i}, FALSE)

\* C2 as amended.  Two records with the same non-empty thread_id are joined
\* by a chain, through records of the archive, whose steps are direct
\* in-reply-to edges (direction ignored) or go between two records with the
\* same cleaned message id (copies of one message); so a record linked to
\* another only by References, or replying to a message that is not in the
\* archive, is in no group with it.
C2_ChainOfRepliesOrCopies ==
  CreateIndexReturned =>
    \A i, j \in 1..Len(emails) :
       InSameThread(emails, i, j) => j \in Reach(emails, {i}, TRUE)

\* Three records were indexed: a reply grouped with its parent, and a record
\* that names another only in References and is in no group with it.
C2_Witness ==
  /\ CreateIndexReturned
  /\ Len(emails) = 3
  /\ \E i, j, l \in 1..3 :
        /\ i # j /\ ReplyEdge(emails, j, i) /\ InSameThread(emails, i, j)
        /\ emails[l].refs # <<>> /\ clean_mid(emails[l].refs) = Mid(emails, i)
        /\ ~InSameThread(emails, i, l)
        /\ emails[l].thread_id.v # <<>>

\* the archive with every undecodable encoded word replaced by a decodable one
Cure(lines) ==
  [i \in 1..Len(lines) |->
     [lines[i] EXCEPT !.v = [c \in 1..Len(lines[i].v) |->
                               IF lines[i].v[c] = EncodedBad THEN EncodedA
                               ELSE lines[i].v[c]]]]

Failed(i) == ParseRaises(ReadAt(archive, emails[i].offset, emails[i].size))

\* the record of a message whose headers could not be decoded
DefaultedRecord(i) ==
  /\ emails[i].date.null /\ emails[i].date_utc.null
  /\ emails[i].sender = <<>> /\ emails[i].subject = <<>>
  /\ emails[i].recipient = <<"[", "]">> /\ emails[i].cc = <<"[", "]">>
  /\ emails[i].bcc = <<"[", "]">>
  /\ emails[i].has_attachments = 0
  /\ emails[i].message_id = <<>> /\ emails[i].in_reply_to = <<>>
  /\ emails[i].refs = <<>>

SumSizes(t) == IF t = <<>> THEN 0 ELSE t[Len(t)].offset + t[Len(t)].size

ExtentsContiguous ==
  /\ \A i \in 1..Len(emails) :
        /\ emails[i].id = i
        /\ emails[i].offset = SumSizes(SubSeq(emails, 1, i - 1))
        /\ emails[i].size > 0
  /\ ConcatExtents(archive, emails, 1) = archive

HasThread(i) == ~emails[i].thread_id.null /\ emails[i].thread_id.v # <<>>
NoThread(i) == emails[i].thread_id = Text(<<>>)

RootOf(i) == find(parent, Mid(emails, i)).root

QueryReturned == pc \in {"loop", "report"}

IdsOf(q) == {q[i].id : i \in 1..Len(q)}
Row(id) == emails[id]
Dated(id) == ~Row(id).date_utc.null

\* the supplied index filters, as the claims word them
AfterOk(id) == Dated(id) /\ Row(id).date_utc.t >= 2 * args.after
BeforeOk(id) == Dated(id) /\ Row(id).date_utc.t < 2 * args.before
SenderOk(id) == Contains(Lower(Row(id).sender), Lower(args.sender))
RecipientOk(id) ==
  \E col \in {Row(id).recipient, Row(id).cc, Row(id).bcc} :
     Contains(Lower(col), Lower(args.recipient))
SubjectOk(id) == Contains(Lower(Row(id).subject), Lower(args.subject))
AttachOk(id) == Row(id).has_attachments = 1

Satisfying ==
  {id \in 1..Len(emails) :
     /\ args.after # 0 => AfterOk(id)
     /\ args.before # 0 => BeforeOk(id)
     /\ args.sender # <<>> => SenderOk(id)
     /\ args.recipient # <<>> => RecipientOk(id)
     /\ args.subject # <<>> => SubjectOk(id)
     /\ args.has_attachment => AttachOk(id)}

\* id1 does not sort after id2: a later date first, no date last
NotAfter(id1, id2) ==
  \/ ~Dated(id2)
  \/ Dated(id1) /\ Row(id1).date_utc.t >= Row(id2).date_utc.t

\* q lists distinct rows of S, date descending, and no row of S left out
\* would sort before a listed one: q is a first part of S in date order
FirstOf(q, S) ==
  /\ \A x, y \in 1..Len(q) : x # y => q[x] # q[y]
  /\ \A x \in 1..Len(q) : q[x] \in S
  /\ \A x, y \in 1..Len(q) : x < y => NotAfter(q[x], q[y])
  /\ \A id \in S : (\A x \in 1..Len(q) : q[x] # id) =>
                     \A x \in 1..Len(q) : NotAfter(q[x], id)

QIds == [x \in 1..Len(qrows) |-> qrows[x].id]

\* C4 as stated.  Filter conjunction: search_index returns exactly the set
\* of records that satisfy every supplied filter; with no filter, all records.
C4_FilterConjunction ==
  QueryReturned => IdsOf(qrows) = Satisfying

\* C4 as amended.  search_index returns only records that satisfy every
\* supplied filter (date-after inclusive, date-before exclusive, no date
\* failing both, recipient in any of To/Cc/Bcc): all of them, each once, for
\* a count-only or body-filtered query, and otherwise the first limit of them
\* in date-descending order.
C4_FilterConjunctionUpToLimit ==
  QueryReturned =>
    /\ FirstOf(QIds, Satisfying)
    /\ Len(qrows) = IF args.count \/ args.body # <<>>
                    THEN Cardinality(Satisfying)
                    ELSE Min(args.limit, Cardinality(Satisfying))
    /\ \A x \in 1..Len(qrows) : qrows[x] = emails[qrows[x].id]

\* A query with all six filters returned a record and rejected another.
C4_Witness ==
  /\ QueryReturned
  /\ args.after # 0 /\ args.before # 0 /\ args.sender # <<>>
  /\ args.recipient # <<>> /\ args.subject # <<>> /\ args.has_attachment
  /\ Len(qrows) = 1
  /\ Len(emails) = 2

\* C10. Result ordering: search_index returns the records by normalized date
\* descending with every record without date after all dated ones, and when
\* the limit cuts the result the records without date are cut first.
C10_DateDescNullsLast ==
  QueryReturned =>
    /\ \A x, y \in 1..Len(qrows) :
          x < y => /\ ~(qrows[x].date_utc.null /\ ~qrows[y].date_utc.null)
                   /\ (~qrows[x].date_utc.null /\ ~qrows[y].date_utc.null)
                         => qrows[x].date_utc.t >= qrows[y].date_utc.t
    /\ (\E x \in 1..Len(qrows) : qrows[x].date_utc.null) =>
          \A id \in Satisfying : Dated(id) => id \in IdsOf(qrows)

\* A record with a date and one without matched and the limit kept one.
C10_Witness ==
  /\ QueryReturned
  /\ ~args.count /\ args.body = <<>> /\ args.limit = 1
  /\ Len(qrows) = 1
  /\ \E id1, id2 \in Satisfying : Dated(id1) /\ ~Dated(id2)

BodyOf(id) == get_body_text(ReadAt(archive, Row(id).offset, Row(id).size))
BodyOk(id) == Contains(Lower(BodyOf(id)), Lower(args.body))
Matching == {id \in Satisfying : BodyOk(id)}

BodySearch == args.body # <<>> /\ ~args.count /\ args.limit >= 1

\* C3. Body-filter limit correctness: in a non-count search with a body
\* filter and limit L >= 1 the index query runs without the limit, and the
\* results printed are the first min(L, m) of the m records that satisfy the
\* index filters and whose body contains the text, case ignored, in date
\* descending order.
C3_BodyLimit ==
  /\ (QueryReturned /\ BodySearch) => IdsOf(qrows) = Satisfying
  /\ (pc = "report" /\ BodySearch) =>
        /\ FirstOf(out, Matching)
        /\ Len(out) = Min(args.limit, Cardinality(Matching))

\* With limit 1, the newest candidate failed the body test and an older one,
\* whose body has the text in another case, was printed.
C3_Witness ==
  /\ pc = "report"
  /\ BodySearch
  /\ args.limit = 1
  /\ Len(qrows) = 2
  /\ qrows[1].id \notin Matching
  /\ out = <<qrows[2].id>>
  /\ ~Contains(BodyOf(qrows[2].id), args.body)

\* C11. Body-filter read failure is local: when reading the archive fails
\* for a candidate of a body-filtered search, the candidate is skipped and the
\* loop goes on to the next candidate or to the report; the query is not
\* terminated.
C11_ReadFailureIsLocal ==
  [][(pc = "loop" /\ args.body # <<>>) => pc' \in {"loop", "report"}]_vars

\* record i, which has a message id, names record j as its direct parent:
\* the edges over which the resolver unions
UnionEdge(t, i, j) == Mid(t, i) # <<>> /\ ReplyEdge(t, i, j)

RECURSIVE ReachUnion(_, _)
ReachUnion(t, S) ==
  LET S2 == S \cup {j \in 1..Len(t) :
                      \E i \in S : UnionEdge(t, i, j) \/ UnionEdge(t, j, i)}
  IN IF S2 = S THEN S ELSE ReachUnion(t, S2)

\* C12. Direct-reply union completeness: after create_index, a record with a
\* non-empty cleaned message_id whose cleaned in_reply_to is the cleaned
\* message_id of a record of the archive carries the same non-empty thread_id
\* as that record, and so do any two records joined by a chain of such
\* edges, in whatever order the records stand in the archive.
C12_DirectReplyUnion ==
  CreateIndexReturned =>
    \A i \in 1..Len(emails) :
       \A j \in ReachUnion(emails, {i}) :
          j # i => /\ HasThread(i)
                   /\ emails[j].thread_id = emails[i].thread_id

\* A reply stands in the archive before its parent, which stands before its
\* own parent, and the three records share a thread.
C12_Witness ==
  /\ CreateIndexReturned
  /\ Len(emails) = 3
  /\ UnionEdge(emails, 1, 2) /\ UnionEdge(emails, 2, 3)
  /\ Mid(emails, 1) # Mid(emails, 3)
  /\ HasThread(1)
  /\ emails[1].thread_id = emails[3].thread_id

\* the byte positions at which a message of the archive starts: position 0
\* and every later line that starts with "From "
MessageStarts ==
  {SumLen(SubSeq(archive, 1, i - 1)) :
     i \in {i \in 1..Len(archive) : i = 1 \/ archive[i].k = "from"}}

\* C13. Partial batches are committed: whatever the number n of messages is
\* to the batch size (smaller, an exact multiple, a multiple plus a
\* remainder), when create_index has returned the table holds exactly n
\* records, one for every delimited message and none twice, and count is n.
C13_PartialBatches ==
  CreateIndexReturned =>
    /\ Len(emails) = Cardinality(MessageStarts)
    /\ count = Len(emails)
    /\ \A p \in MessageStarts :
          Cardinality({i \in 1..Len(emails) : emails[i].offset = p}) = 1
    /\ \A i, j \in 1..Len(emails) : i # j => emails[i].id # emails[j].id

\* An archive of one full batch and a remainder has been indexed.
C13_Witness ==
  /\ CreateIndexReturned
  /\ Len(emails) > BatchSize
  /\ Len(emails) % BatchSize # 0

\* An archive of fewer messages than one batch has been indexed.
C13_WitnessSmall ==
  /\ CreateIndexReturned
  /\ Len(emails) = BatchSize - 1

SameButThreadId(r1, r2) ==
  [r1 EXCEPT !.thread_id = NullText] = [r2 EXCEPT !.thread_id = NullText]

\* C14. Thread-id write frame: the thread resolution phase of create_index
\* keeps the number of records and every field of every record other than
\* thread_id, and writes the thread_id of every record exactly once: a
\* thread_id that has been written is not written again, the records written
\* so far are the first k, and all are written when create_index returns.
C14_ThreadIdWriteFrame ==
  /\ [][pc = "ci_tid" =>
         /\ Len(emails') = Len(emails)
         /\ \A i \in 1..Len(emails) :
               /\ SameButThreadId(emails[i], emails'[i])
               /\ ~emails[i].thread_id.null =>
                     emails'[i].thread_id = emails[i].thread_id]_vars
  /\ [](pc = "ci_tid" =>
          \A i \in 1..Len(emails) : emails[i].thread_id.null <=> i > k)
  /\ [](pc = "ci_ret" =>
          \A i \in 1..Len(emails) : ~emails[i].thread_id.null)

\* The thread ids of a first batch are committed, those of the records after
\* it are still to be written, and the records are in different threads.
C14_Witness ==
  /\ pc = "ci_tid"
  /\ k = BatchSize
  /\ Len(emails) > BatchSize
  /\ emails[1].thread_id.v # <<>>
  /\ emails[2].thread_id.v # emails[1].thread_id.v
  /\ emails[Len(emails)].thread_id.null
  /\ emails[Len(emails)].message_id # <<>>

\* the n-th ancestor of x in the parent map
RECURSIVE Climb(_, _, _)
Climb(p, x, n) == IF n = 0 THEN x ELSE Climb(p, PGet(p, x), n - 1)

IsRoot(p, x) == PGet(p, x) = x

\* Every key leads to a root within as many steps as there are keys: the
\* only cycles are the self-loops of the roots, and the loop of find ends.
WellFormed(p) ==
  /\ \A x \in DOMAIN p : p[x] \in DOMAIN p
  /\ \A x \in DOMAIN p : IsRoot(p, Climb(p, x, Cardinality(DOMAIN p)))

\* the parent map after the second loop has handled the first n rows
ParentAfter(n) ==
  UnionLoop(InitParent(rows), SubSeq(rows, 1, n), known_mids(rows), 1)

\* C15. Union-find well-formedness and termination: for every archive, with
\* self-replies, mutual replies and copies of a message id, the parent map
\* after every union of the second loop and after the finds of the third has
\* no cycle but the self-loops of its roots, so every find ends; and every
\* thread_id assigned is a root and is the cleaned message_id of a record
\* that carries that thread_id.
C15_UnionFindWellFormed ==
  /\ pc \in {"ci_tid", "ci_ret"} =>
        /\ \A n \in 0..Len(rows) : WellFormed(ParentAfter(n))
        /\ WellFormed(parent)
  /\ CreateIndexReturned =>
        \A i \in 1..Len(emails) :
           HasThread(i) =>
             /\ IsRoot(parent, emails[i].thread_id.v)
             /\ find(parent, emails[i].thread_id.v).root = emails[i].thread_id.v
             /\ \E j \in 1..Len(emails) :
                   /\ Mid(emails, j) = emails[i].thread_id.v
                   /\ emails[j].thread_id = emails[i].thread_id

\* Two records that reply to each other and a record that replies to itself
\* have been resolved into a thread.
C15_Witness ==
  /\ CreateIndexReturned
  /\ \E i, j, l \in 1..Len(emails) :
        /\ i # j /\ l # i /\ l # j
        /\ Mid(emails, i) # Mid(emails, j)
        /\ UnionEdge(emails, i, j) /\ UnionEdge(emails, j, i)
        /\ UnionEdge(emails, l, l)
        /\ HasThread(i) /\ HasThread(l)

\* C16. Limit is an upper bound: a search that is not count-only prints at
\* most limit results, for every limit >= 0, with and without a body filter.
C16_LimitIsUpperBound ==
  (pc \in {"loop", "report"} /\ ~args.count) => Len(out) <= args.limit

\* the options that ask run for a search or for a single-email action
Requested(a) ==
  \/ a.sender # <<>> \/ a.recipient # <<>> \/ a.subject # <<>>
  \/ a.body # <<>> \/ a.after # 0 \/ a.before # 0
  \/ a.has_attachment \/ a.count
  \/ a.show # 0 \/ a.thread # 0 \/ a.attachment # 0

\* C17. Rebuild then serve: a run that rebuilds the index (forced, or none
\* present) and was given a search filter or a single-email action goes on,
\* once create_index has returned, to serve it from the complete new index;
\* it returns right after the rebuild only when the rebuild was forced and
\* neither a filter nor an action was given.
C17_RebuildThenServe ==
  /\ [][(pc = "ci_ret" /\ pc' = "idle") =>
          (args.re_index /\ ~Requested(args))]_vars
  /\ [](pc \in {"dispatch", "single", "loop", "report", "shown"} =>
          (indexExists /\ emails = IndexOf(archive)))

\* the records of the thread that --thread asks for
ThreadGroup ==
  {i \in 1..Len(emails) : emails[i].thread_id = emails[args.thread].thread_id}

\* C18. Thread display covers the group: for a record with a non-empty
\* thread_id, show_thread ends and has printed every record of the thread
\* group exactly once, under at least one root, also when the group holds a
\* self-reply, a mutual reply cycle or copies of a message id.
C18_ThreadDisplayCovers ==
  [][(/\ pc = "single" /\ args.attachment = 0
      /\ args.thread \in 1..Len(emails)
      /\ HasThread(args.thread))
       => /\ pc' = "shown"
          /\ Len(out') = Cardinality(ThreadGroup)
          /\ Range(out') = ThreadGroup]_vars

====
